---- MODULE Spec2Model ----
(***************************************************************************)
(* Anomaly detection over per-city temperature series                      *)
(* (Project 1 Streamlit/analysis.py).                                      *)
(*                                                                         *)
(* Numbers.  Temperatures are integers (a scaled-integer view of the       *)
(* floats of the program).  A rolling mean is carried as the exact         *)
(* fraction num/den, a rolling standard deviation as the exact fraction    *)
(* num/den of its SQUARE (the standard deviation itself is irrational in   *)
(* general), and a bound mean + k*std as the triple of both.  Comparisons  *)
(* against a bound are decided exactly by cross-multiplication.  NaN, the  *)
(* value pandas stores for an absent statistic, is the record with         *)
(* nan = TRUE; every comparison against it is FALSE, as in IEEE-754.       *)
(*                                                                         *)
(* Rows.  A row carries the four input columns and the flag `numeric`:     *)
(* FALSE stands for a temperature cell that holds no number (the column    *)
(* then has dtype object and the rolling aggregation of the rows of that   *)
(* city raises), which is how the task of one city can fail while the      *)
(* tasks of the other cities succeed.                                      *)
(***************************************************************************)
EXTENDS Integers, Sequences, FiniteSets, TLC

(* ------------------------------ bounds --------------------------------- *)
\* longest single-city series handed to analyze_city
MaxLen == 3
\* largest rolling window tried on a single-city series (smallest is -1)
MaxWindow == 3
\* longest run of identical values in the zero-variance series
MaxRun == 7
\* most rows of a dataset handed to the all-cities runs
MaxRows == 3
\* largest window tried by the all-cities runs (smallest is -1)
MaxBatchWindow == 2
\* most (city, season) rows of a seasonal table
MaxPairs == 2

\* default of the window parameter (def analyze_city(..., window: int=30))
DefaultWindow == 30

Cities == {"A", "B"}
Seasons == {"winter", "spring", "summer", "autumn"}
Times == {1, 2, 3}
Temps == {0, 1, 3}
BatchTimes == {1, 2}
BatchTemps == {0, 3}
WorkerCounts == {1, 2}
Months == 1..12

VARIABLES
  df,            \* the DataFrame argument: a sequence of rows
  window,        \* the window argument
  city_ret,      \* outcome of the analyze_city call
  max_workers,   \* size of the process pool (os.cpu_count())
  pc,            \* position of analyze_all_cities_parallel
  tasks,         \* the list of (df_city, window) pairs
  fut,           \* state of the future of each task
  res,           \* outcome stored in each finished future
  k,             \* index of the next future whose result list() takes
  results,       \* the results list() has taken so far
  exc,           \* exception raised out of list(executor.map(...))
  finished,      \* the tasks in the order their worker finished them
  ret,           \* outcome of analyze_all_cities_parallel
  serial_ret,    \* outcome of analyze_all_cities on the same arguments
  city,          \* city argument of check_current_temperature_anomaly
  current_temp,  \* current_temp argument
  season_stats,  \* season_stats argument: a sequence of rows
  month_num,     \* datetime.now().month read by the call
  check_ret      \* outcome of check_current_temperature_anomaly

vars == <<df, window, city_ret, max_workers, pc, tasks, fut, res, k, results,
          exc, finished, ret, serial_ret, city, current_temp, season_stats, month_num,
          check_ret>>

cityVars == <<city_ret>>
batchVars ==
  <<max_workers, pc, tasks, fut, res, k, results, exc, finished, ret, serial_ret>>
checkVars == <<city, current_temp, season_stats, month_num, check_ret>>

(* --------------------------- sequences --------------------------------- *)
RECURSIVE SumOver(_, _, _)
\* sum of f[i] for i in lo..hi
SumOver(f, lo, hi) == IF lo > hi THEN 0 ELSE f[lo] + SumOver(f, lo + 1, hi)

RECURSIVE Flatten(_)
Flatten(ss) == IF ss = <<>> THEN <<>> ELSE Head(ss) \o Flatten(Tail(ss))

\* number of positions of s holding x
CountIn(s, x) == Cardinality({i \in 1..Len(s) : s[i] = x})

(* ----------------------------- numbers --------------------------------- *)
NaN == [nan |-> TRUE, num |-> 0, den |-> 1]
Frac(n, d) == [nan |-> FALSE, num |-> n, den |-> d]
NaNBound == [nan |-> TRUE, mnum |-> 0, mden |-> 1, k |-> 0, vnum |-> 0, vden |-> 1]

\* mean + coef * std, NaN as soon as one operand is NaN
Bound(mean, coef, std) ==
  IF mean.nan \/ std.nan THEN NaNBound
  ELSE [nan |-> FALSE, mnum |-> mean.num, mden |-> mean.den, k |-> coef,
        vnum |-> std.num, vden |-> std.den]

\* t < mnum/mden + k*sqrt(vnum/vden), for k <= 0 (a lower bound)
\*   <=>  mnum/mden - t > |k| * sqrt(vnum/vden)
LessThan(t, b) ==
  /\ ~b.nan
  /\ LET diff == b.mnum - t * b.mden IN
       /\ diff > 0
       /\ diff * diff * b.vden > b.k * b.k * b.vnum * b.mden * b.mden

\* t > mnum/mden + k*sqrt(vnum/vden), for k >= 0 (an upper bound)
GreaterThan(t, b) ==
  /\ ~b.nan
  /\ LET diff == t * b.mden - b.mnum IN
       /\ diff > 0
       /\ diff * diff * b.vden > b.k * b.k * b.vnum * b.mden * b.mden

(* --------------------------- analyze_city ------------------------------ *)
Raise(e) == [ok |-> FALSE, err |-> e, table |-> <<>>]
Return(t) == [ok |-> TRUE, err |-> "", table |-> t]
NotCalled == [ok |-> FALSE, err |-> "not called", table |-> <<>>]

RECURSIVE InsertByTimestamp(_, _)
\* r placed after every row of the sorted s whose timestamp is <= its own
InsertByTimestamp(s, r) ==
  IF s = <<>> THEN <<r>>
  ELSE IF s[Len(s)].timestamp <= r.timestamp THEN Append(s, r)
  ELSE Append(InsertByTimestamp(SubSeq(s, 1, Len(s) - 1), r), s[Len(s)])

RECURSIVE SortedPrefix(_, _)
SortedPrefix(s, n) ==
  IF n = 0 THEN <<>> ELSE InsertByTimestamp(SortedPrefix(s, n - 1), s[n])

\* faulty variant of sort_values: the rows are left as they came
sort_values_omitted(s) == s

\* df.sort_values("timestamp"): ascending.  The default sort is not stable
\* in general; on the short arrays modelled here numpy sorts by insertion,
\* which keeps rows of equal timestamp in input order.  It is a function of
\* its input in any case: the same rows always come out in the same order.
sort_values(s) == SortedPrefix(s, Len(s))

\* the positions of the window ending at i: the last `w` rows up to i
WindowLo(i, w) == IF i - w + 1 < 1 THEN 1 ELSE i - w + 1
Nobs(i, w) == i - WindowLo(i, w) + 1
WindowSum(s, i, w) ==
  SumOver([j \in 1..Len(s) |-> s[j].temperature], WindowLo(i, w), i)
WindowSumSq(s, i, w) ==
  SumOver([j \in 1..Len(s) |-> s[j].temperature * s[j].temperature],
          WindowLo(i, w), i)

\* faulty variant of min_periods: one observation is enough
min_periods_one(w) == 1
\* min_periods as the source passes it
min_periods(w) == w

\* rolling(window, min_periods=window).mean() at position i
rolling_mean(s, i, w) ==
  LET n == Nobs(i, w) IN
  IF n >= min_periods(w) /\ n > 0 THEN Frac(WindowSum(s, i, w), n) ELSE NaN

\* delta degrees of freedom of Rolling.std (its default)
ddof == 1

\* rolling(window, min_periods=window).std() at position i, as its square:
\* (n*Q - S^2) / (n*(n - ddof)), NaN unless more than ddof observations
rolling_std(s, i, w) ==
  LET n == Nobs(i, w)
      S == WindowSum(s, i, w)
      Q == WindowSumSq(s, i, w)
  IN IF n >= min_periods(w) /\ n > ddof THEN Frac(n * Q - S * S, n * (n - ddof))
     ELSE NaN

\* faulty variant of bound_width: three standard deviations
bound_width_three == 2 + 1
\* the bounds lie this many standard deviations from the mean
bound_width == 2

\* one row of the DataFrame analyze_city returns
ResultRow(s, i, w) ==
  LET mean == rolling_mean(s, i, w)
      std == rolling_std(s, i, w)
      lower == Bound(mean, -bound_width, std)
      upper == Bound(mean, bound_width, std)
  IN [city |-> s[i].city, timestamp |-> s[i].timestamp,
      temperature |-> s[i].temperature, season |-> s[i].season,
      numeric |-> s[i].numeric,
      rolling_mean |-> mean, rolling_std |-> std,
      lower_bound |-> lower, upper_bound |-> upper,
      is_anomaly |-> LessThan(s[i].temperature, lower)
                       \/ GreaterThan(s[i].temperature, upper)]

\* Rolling's validation of its window: an integer 0 or greater
WindowAccepted(w) == w >= 0
\* analyze_city(df_with_city, window).  The rolling object rejects a negative
\* window (ValueError); the aggregation rejects a temperature column holding a
\* non-number (DataError).
analyze_city(df_with_city, w) ==
  LET s == sort_values(df_with_city) IN
  IF ~WindowAccepted(w) THEN Raise("ValueError")
  ELSE IF \E i \in 1..Len(s) : ~s[i].numeric THEN Raise("DataError")
  ELSE Return([i \in 1..Len(s) |-> ResultRow(s, i, w)])

(* ------------------------ single-city specification -------------------- *)
Row(c, t, v, se, nu) ==
  [city |-> c, timestamp |-> t, temperature |-> v, season |-> se, numeric |-> nu]

\* rows of one city: numeric readings, and one unreadable cell per timestamp
CityRows ==
  {Row("A", t, v, "winter", TRUE) : t \in Times, v \in Temps}
    \cup {Row("A", t, 0, "winter", FALSE) : t \in Times}

SeqsUpTo(S, n) == UNION {[1..m -> S] : m \in 0..n}

batchIdle ==
  /\ max_workers = 1
  /\ pc = "idle"
  /\ tasks = <<>>
  /\ fut = <<>>
  /\ res = <<>>
  /\ k = 1
  /\ results = <<>>
  /\ exc = ""
  /\ finished = <<>>
  /\ ret = NotCalled
  /\ serial_ret = NotCalled

checkIdle ==
  /\ city = "A"
  /\ current_temp = 0
  /\ season_stats = <<>>
  /\ month_num = 0
  /\ check_ret = "not called"

\* every caller hands analyze_city the rows of a city that occurs in the
\* dataset, so the series holds at least one row
InitCity ==
  /\ df \in SeqsUpTo(CityRows, MaxLen) \ {<<>>}
  /\ window \in -1..MaxWindow
  /\ city_ret = NotCalled
  /\ batchIdle
  /\ checkIdle

\* the call analyze_city(df, window)
CallAnalyzeCity ==
  /\ city_ret = NotCalled
  /\ city_ret' = analyze_city(df, window)
  /\ UNCHANGED <<df, window, batchVars, checkVars>>

NextCity == CallAnalyzeCity

SpecCity == InitCity /\ [][NextCity]_vars

(* ---------------------- zero-variance specification -------------------- *)
\* `run` readings v at timestamps 1..run, then one reading v + d
ZeroVarianceSeries(run, v, d) ==
  [i \in 1..(run + 1) |->
     Row("A", i, IF i <= run THEN v ELSE v + d, "winter", TRUE)]

Reverse(s) == [i \in 1..Len(s) |-> s[Len(s) + 1 - i]]

\* the series in chronological or in reverse input order, window = run
InitZeroVar ==
  /\ \E run \in 1..MaxRun, v \in {0, 5}, d \in {-1, 0, 1, 2} :
       /\ df \in {ZeroVarianceSeries(run, v, d), Reverse(ZeroVarianceSeries(run, v, d))}
       /\ window = run
  /\ city_ret = NotCalled
  /\ batchIdle
  /\ checkIdle

SpecZeroVar == InitZeroVar /\ [][NextCity]_vars

(* ------------------- properties of analyze_city ------------------------ *)
Called == city_ret # NotCalled
T == city_ret.table

\* the table holds the rows of df in ascending timestamp order
Chronological(t) == \A i \in 1..(Len(t) - 1) : t[i].timestamp <= t[i + 1].timestamp

\* the statistics of a row are all absent
StatsAbsent(r) ==
  r.rolling_mean.nan /\ r.rolling_std.nan /\ r.lower_bound.nan /\ r.upper_bound.nan

\* C4: warm-up rows. In the table analyze_city returns, every row at a
\* timestamp-sorted 0-based index i < W-1 (1-based position <= W-1) has
\* rolling_mean, rolling_std, lower_bound and upper_bound absent and
\* is_anomaly = FALSE, whatever its value.
C4_WarmUpRows ==
  (Called /\ city_ret.ok) =>
    /\ Chronological(T)
    /\ \A p \in 1..Len(T) : p <= window - 1 => StatsAbsent(T[p]) /\ ~T[p].is_anomaly

\* C4 witness: a three-row series under window 3 whose first two rows are
\* warm-up rows with different values and whose third row has its statistics
C4_Witness ==
  /\ Called /\ city_ret.ok /\ window = 3 /\ Len(T) = 3
  /\ StatsAbsent(T[1]) /\ StatsAbsent(T[2])
  /\ T[1].temperature # T[2].temperature
  /\ ~T[3].rolling_mean.nan

\* C6: the claim as stated. Every call of analyze_city with window <= 0 ends
\* in an error and returns no table.
C6_InvalidWindowRejected ==
  (Called /\ window <= 0) => ~city_ret.ok

\* the two-pass sample variance of the W table values ending at position p:
\* sum (x - S/W)^2 / (W - 1) = sum (W*x - S)^2 / (W^2 * (W - 1)); by the
\* specification's convention it is 0 when W = 1
SampleVariance(t, p, w) ==
  LET x == [j \in 1..Len(t) |-> t[j].temperature]
      S == SumOver(x, p - w + 1, p)
      dev2 == [j \in 1..Len(t) |-> (w * x[j] - S) * (w * x[j] - S)]
  IN IF w = 1 THEN Frac(0, 1) ELSE Frac(SumOver(dev2, p - w + 1, p), w * w * (w - 1))

SameFraction(a, b) == ~a.nan /\ ~b.nan /\ a.num * b.den = b.num * a.den

\* the bound b is exactly the number x: no spread, and a mean of x
IsValue(b, x) == ~b.nan /\ b.vnum = 0 /\ b.mnum = x * b.mden

\* C9: the claim as stated. For 1 <= W <= len(series), at every sorted
\* position p >= W rolling_std is present and equals the sample standard
\* deviation (divisor W-1) of the W values ending at p; for W = 1 it is 0,
\* lower_bound = upper_bound = value and no row is flagged.
C9_RollingStd ==
  (Called /\ city_ret.ok /\ 1 <= window /\ window <= Len(T)) =>
    \A p \in window..Len(T) :
      /\ SameFraction(T[p].rolling_std, SampleVariance(T, p, window))
      /\ window = 1 =>
           /\ IsValue(T[p].lower_bound, T[p].temperature)
           /\ IsValue(T[p].upper_bound, T[p].temperature)
           /\ ~T[p].is_anomaly

\* C9, the part the code satisfies: the same statement for 2 <= W <= len(series)
C9_RollingStdFromTwo ==
  (Called /\ city_ret.ok /\ 2 <= window /\ window <= Len(T)) =>
    \A p \in window..Len(T) :
      SameFraction(T[p].rolling_std, SampleVariance(T, p, window))

\* the first `run` rows of the table hold one and the same value
IdenticalRun(t, run) == \A i \in 1..run : t[i].temperature = t[1].temperature

\* C5: the claim as stated. After W identical values v under window W, a
\* following point equal to v is not flagged and a following point that
\* differs from v is flagged, for every W.
C5_ZeroVarianceEveryWindow ==
  (Called /\ city_ret.ok /\ Len(T) = window + 1 /\ IdenticalRun(T, window)) =>
    (T[window + 1].is_anomaly <=> T[window + 1].temperature # T[1].temperature)

\* C5 amended: after W identical values v under window W, a following point
\* equal to v is never flagged, and a following point that differs from v is
\* flagged exactly when W >= 6 (the window of the following point holds the
\* point itself, so its own deviation widens the bounds: it is flagged iff
\* (W-1)^2 > 4*W).
C5_ZeroVarianceFromSix ==
  (Called /\ city_ret.ok /\ Len(T) = window + 1 /\ IdenticalRun(T, window)) =>
    /\ T[window].is_anomaly = FALSE
    /\ T[window + 1].is_anomaly
         <=> (T[window + 1].temperature # T[1].temperature /\ window >= 6)

\* C5 witness: six identical values, the seventh differs and is flagged
C5_Witness ==
  /\ Called /\ city_ret.ok /\ window = 6 /\ Len(T) = 7 /\ IdenticalRun(T, 6)
  /\ T[7].temperature # T[1].temperature
  /\ T[7].is_anomaly

(* ------------------ analyze_all_cities (the serial run) ---------------- *)
RECURSIVE unique(_)
\* df["city"].unique(): the cities in order of first appearance
unique(s) ==
  IF s = <<>> THEN <<>>
  ELSE LET u == unique(SubSeq(s, 1, Len(s) - 1))
           c == s[Len(s)].city
       IN IF \E i \in 1..Len(u) : u[i] = c THEN u ELSE Append(u, c)

\* df[df["city"] == c]
rows_of(d, c) == SelectSeq(d, LAMBDA r : r.city = c)

\* pd.concat(results, ignore_index=True): no objects to concatenate is an error
concat(rs) == IF rs = <<>> THEN Raise("ValueError") ELSE Return(Flatten(rs))

RECURSIVE SerialLoop(_, _, _, _, _)
\* the for loop of analyze_all_cities from city number i on
SerialLoop(d, cs, i, acc, w) ==
  IF i > Len(cs) THEN concat(acc)
  ELSE LET r == analyze_city(rows_of(d, cs[i]), w) IN
       IF r.ok THEN SerialLoop(d, cs, i + 1, Append(acc, r.table), w)
       ELSE Raise(r.err)

analyze_all_cities(d, w) == SerialLoop(d, unique(d), 1, <<>>, w)

(* -------------- analyze_all_cities_parallel (the pool run) ------------- *)
\* faulty variant of _analyze_city_wrapper: the window is dropped and the
\* default is used
_analyze_city_wrapper_default(args) == analyze_city(args.df_city, DefaultWindow)

\* _analyze_city_wrapper(args)
_analyze_city_wrapper(args) == analyze_city(args.df_city, args.window)

\* the tasks list: one (df_city, window) pair per city
build_tasks(d, w) ==
  LET cs == unique(d) IN
  [i \in 1..Len(cs) |-> [df_city |-> rows_of(d, cs[i]), window |-> w]]

\* faulty variant of shutdown_wait: shutdown(wait=False)
shutdown_nowait(f) == TRUE

\* leaving the `with` block: ProcessPoolExecutor.__exit__ is
\* shutdown(wait=True), which returns once no task is pending or running
shutdown_wait(f) == \A i \in 1..Len(f) : f[i] \notin {"pending", "running"}

\* faulty variant of raises: a failed future is skipped, not re-raised
raises_skipped(r) == FALSE

\* list(executor.map(...)) re-raises the exception of a failed future
raises(r) == ~r.ok

BatchRows ==
  {Row(c, t, v, "winter", TRUE) : c \in Cities, t \in BatchTimes, v \in BatchTemps}
    \cup {Row(c, 1, 0, "winter", FALSE) : c \in Cities}

Init ==
  /\ df \in SeqsUpTo(BatchRows, MaxRows)
  /\ window \in -1..MaxBatchWindow
  /\ max_workers \in WorkerCounts
  /\ pc = "idle"
  /\ tasks = <<>>
  /\ fut = <<>>
  /\ res = <<>>
  /\ k = 1
  /\ results = <<>>
  /\ exc = ""
  /\ finished = <<>>
  /\ ret = NotCalled
  /\ serial_ret = NotCalled
  /\ city_ret = NotCalled
  /\ checkIdle

Running == {i \in 1..Len(fut) : fut[i] = "running"}
Pending == {i \in 1..Len(fut) : fut[i] = "pending"}

\* lines 52-60: the tasks are built and executor.map submits them all
Submit ==
  /\ pc = "idle"
  /\ tasks' = build_tasks(df, window)
  /\ fut' = [i \in 1..Len(tasks') |-> "pending"]
  /\ res' = [i \in 1..Len(tasks') |-> NotCalled]
  /\ pc' = "mapping"
  /\ UNCHANGED <<df, window, city_ret, max_workers, k, results, exc, finished,
                 ret, serial_ret, checkVars>>

\* a free worker process takes the oldest pending task
StartTask(i) ==
  /\ fut[i] = "pending"
  /\ \A j \in Pending : i <= j
  /\ Cardinality(Running) < max_workers
  /\ fut' = [fut EXCEPT ![i] = "running"]
  /\ UNCHANGED <<df, window, city_ret, max_workers, pc, tasks, res, k, results,
                 exc, finished, ret, serial_ret, checkVars>>

\* a worker process finishes _analyze_city_wrapper(tasks[i])
FinishTask(i) ==
  /\ fut[i] = "running"
  /\ res' = [res EXCEPT ![i] = _analyze_city_wrapper(tasks[i])]
  /\ fut' = [fut EXCEPT ![i] = IF res'[i].ok THEN "done" ELSE "failed"]
  /\ finished' = Append(finished, i)
  /\ UNCHANGED <<df, window, city_ret, max_workers, pc, tasks, k, results,
                 exc, ret, serial_ret, checkVars>>

\* list() takes the result of the next future, in task order (a future that
\* holds no exception holds a table)
TakeResult ==
  /\ pc = "mapping"
  /\ k <= Len(fut)
  /\ fut[k] \in {"done", "failed"}
  /\ ~raises(res[k])
  /\ results' = IF res[k].ok THEN Append(results, res[k].table) ELSE results
  /\ k' = k + 1
  /\ UNCHANGED <<df, window, city_ret, max_workers, pc, tasks, fut, res, exc,
                 finished, ret, serial_ret, checkVars>>

\* the next future holds an exception: the result iterator cancels the
\* futures that have not started and the exception leaves list()
TakeException ==
  /\ pc = "mapping"
  /\ k <= Len(fut)
  /\ fut[k] \in {"done", "failed"}
  /\ raises(res[k])
  /\ exc' = res[k].err
  /\ fut' = [i \in 1..Len(fut) |-> IF fut[i] = "pending" THEN "cancelled" ELSE fut[i]]
  /\ pc' = "exiting"
  /\ UNCHANGED <<df, window, city_ret, max_workers, tasks, res, k, results,
                 finished, ret, serial_ret, checkVars>>

\* every result is taken: list() returns
MapDone ==
  /\ pc = "mapping"
  /\ k > Len(fut)
  /\ pc' = "exiting"
  /\ UNCHANGED <<df, window, city_ret, max_workers, tasks, fut, res, k, results,
                 exc, finished, ret, serial_ret, checkVars>>

\* the `with` block is left; then the exception propagates to the caller, or
\* line 62 concatenates the results and returns
ExitWith ==
  /\ pc = "exiting"
  /\ shutdown_wait(fut)
  /\ ret' = IF exc # "" THEN Raise(exc) ELSE concat(results)
  /\ pc' = "done"
  /\ UNCHANGED <<df, window, city_ret, max_workers, tasks, fut, res, k, results,
                 exc, finished, serial_ret, checkVars>>

\* the serial run on the same arguments, made once the pool run is over
SerialRun ==
  /\ pc = "done"
  /\ serial_ret = NotCalled
  /\ serial_ret' = analyze_all_cities(df, window)
  /\ UNCHANGED <<df, window, city_ret, max_workers, pc, tasks, fut, res, k,
                 results, exc, finished, ret, checkVars>>

Next ==
  \/ Submit
  \/ \E i \in 1..Len(fut) : StartTask(i)
  \/ \E i \in 1..Len(fut) : FinishTask(i)
  \/ TakeResult
  \/ TakeException
  \/ MapDone
  \/ ExitWith
  \/ SerialRun

Spec == Init /\ [][Next]_vars

(* ------------------- properties of the pool run ------------------------ *)
\* the same rows the same number of times
SameBag(a, b) ==
  /\ Len(a) = Len(b)
  /\ \A i \in 1..Len(a) : CountIn(a, a[i]) = CountIn(b, a[i])

\* the input columns of a result row
InputColumns(r) == Row(r.city, r.timestamp, r.temperature, r.season, r.numeric)

\* C1: partition invariance. Once both runs are over, the pool run returned a
\* table exactly when the serial run did, and then both tables hold the same
\* result rows (all columns) the same number of times, in whatever order the
\* tasks were started and finished.
C1_PartitionInvariance ==
  (pc = "done" /\ serial_ret # NotCalled) =>
    /\ ret.ok <=> serial_ret.ok
    /\ ret.ok => SameBag(ret.table, serial_ret.table)

\* C1 witness: two cities, the second task finished before the first, both
\* runs returned a table and some row has a rolling standard deviation
C1_Witness ==
  /\ pc = "done" /\ serial_ret # NotCalled /\ ret.ok /\ serial_ret.ok
  /\ window >= 1
  /\ finished = <<2, 1>>
  /\ \E i \in 1..Len(ret.table) : ~ret.table[i].rolling_std.nan

\* C2: fail-fast, all or nothing. Once the pool run is over, if the task of
\* some partition failed then the call ended in an error and returned no
\* table, whatever the other tasks produced.
C2_AllOrNothing ==
  (pc = "done" /\ \E i \in 1..Len(fut) : fut[i] = "failed") =>
    (~ret.ok /\ ret.table = <<>>)

\* C2 witness: the first task succeeded and its table was taken before the
\* second task failed; the call returned the error and no table
C2_Witness ==
  /\ pc = "done" /\ Len(fut) = 2 /\ fut[1] = "done" /\ fut[2] = "failed"
  /\ finished = <<1, 2>>
  /\ results # <<>>
  /\ ~ret.ok /\ ret.table = <<>> /\ ret.err = "DataError"

\* every row of d lies in the task of its city and in no other task
ExactlyOnePartition(d, ts) ==
  /\ SameBag(Flatten([i \in 1..Len(ts) |-> ts[i].df_city]), d)
  /\ \A i \in 1..Len(ts) : \A p, q \in 1..Len(ts[i].df_city) :
       ts[i].df_city[p].city = ts[i].df_city[q].city
  /\ \A i, j \in 1..Len(ts) :
       (i # j) => ts[i].df_city[1].city # ts[j].df_city[1].city

\* the rows of any one city appear in ascending timestamp order
ChronologicalPerCity(t) ==
  \A i, j \in 1..Len(t) :
    (i < j /\ t[i].city = t[j].city) => t[i].timestamp <= t[j].timestamp

\* C3: exactly-once coverage. The tasks partition the rows of the dataset by
\* city; the table the pool run returns holds every input row exactly once,
\* and the rows of any one city in ascending timestamp order.
C3_ExactlyOnceChronological ==
  /\ pc # "idle" => ExactlyOnePartition(df, tasks)
  /\ (pc = "done" /\ ret.ok) =>
       /\ SameBag([i \in 1..Len(ret.table) |-> InputColumns(ret.table[i])], df)
       /\ ChronologicalPerCity(ret.table)

\* C3 witness: a returned table of three rows over two cities whose input
\* had the rows of one city out of chronological order and interleaved
C3_Witness ==
  /\ pc = "done" /\ ret.ok /\ Len(df) = 3 /\ Len(tasks) = 2
  /\ df[1].city = df[3].city /\ df[1].city # df[2].city
  /\ df[1].timestamp > df[3].timestamp

\* C10: merge barrier. Once the pool run has returned, every task has
\* finished, failed, or was cancelled before it started: none is pending or
\* running; and a returned table was built from tasks that all finished.
C10_MergeBarrier ==
  /\ pc = "done" =>
       \A i \in 1..Len(fut) : fut[i] \in {"done", "failed", "cancelled"}
  /\ (pc = "done" /\ ret.ok) => \A i \in 1..Len(fut) : fut[i] = "done"
  /\ pc # "done" => ret = NotCalled

\* C10 witness: the call returned an error after one task failed, and the
\* other task, still pending then, was cancelled before it started
C10_Witness ==
  /\ pc = "done" /\ ~ret.ok
  /\ \E i, j \in 1..Len(fut) : fut[i] = "failed" /\ fut[j] = "cancelled"

(* ---------------- check_current_temperature_anomaly -------------------- *)
\* faulty variant of season_of: December falls to autumn
season_of_december_autumn(m) ==
  IF m \in {1, 2} THEN "winter"
  ELSE IF m \in {3, 4, 5} THEN "spring"
  ELSE IF m \in {6, 7, 8} THEN "summer"
  ELSE "autumn"

\* lines 121-128: the season of a month
season_of(m) ==
  IF m \in {12, 1, 2} THEN "winter"
  ELSE IF m \in {3, 4, 5} THEN "spring"
  ELSE IF m \in {6, 7, 8} THEN "summer"
  ELSE "autumn"

\* faulty variant of season_filter: falls back to the rows of the city for
\* any season
season_filter_fallback(stats, c, se) ==
  IF SelectSeq(stats, LAMBDA r : r.city = c /\ r.season = se) # <<>>
  THEN SelectSeq(stats, LAMBDA r : r.city = c /\ r.season = se)
  ELSE SelectSeq(stats, LAMBDA r : r.city = c)

\* lines 130-133: the rows of the table for (city, season)
season_filter(stats, c, se) == SelectSeq(stats, LAMBDA r : r.city = c /\ r.season = se)

\* lines 135-144 on a non-empty selection; a comparison against NaN is False
anomaly_verdict(temp, mean, std) ==
  IF std.nan THEN "False"
  ELSE IF temp < mean - 2 * std.val \/ temp > mean + 2 * std.val THEN "True"
  ELSE "False"

\* check_current_temperature_anomaly(city, current_temp, season_stats) run in
\* month m; .iloc[0] on an empty selection raises IndexError
check_current_temperature_anomaly(c, temp, stats, m) ==
  LET season_filtered == season_filter(stats, c, season_of(m)) IN
  IF season_filtered = <<>> THEN "IndexError"
  ELSE anomaly_verdict(temp, season_filtered[1].mean, season_filtered[1].std)

\* the standard deviation of a season: a number, or NaN for a season with a
\* single observation
StdValues == {[nan |-> TRUE, val |-> 0], [nan |-> FALSE, val |-> 0], [nan |-> FALSE, val |-> 5]}
StatRows ==
  {[city |-> c, season |-> se, mean |-> 20, std |-> sd] :
     c \in Cities, se \in Seasons, sd \in StdValues}
LiveTemps == {9, 10, 20, 29, 30, 32}

\* a table as compute_season_stats builds it: at most one row per pair
OneRowPerPair(stats) ==
  \A i, j \in 1..Len(stats) :
    (i # j) => <<stats[i].city, stats[i].season>> # <<stats[j].city, stats[j].season>>

InitCheck ==
  /\ city \in Cities
  /\ current_temp \in LiveTemps
  /\ season_stats \in SeqsUpTo(StatRows, MaxPairs)
  /\ OneRowPerPair(season_stats)
  /\ month_num = 0
  /\ check_ret = "not called"
  /\ df = <<>>
  /\ window = DefaultWindow
  /\ city_ret = NotCalled
  /\ batchIdle

\* the call, made in month m
CallCheck(m) ==
  /\ check_ret = "not called"
  /\ month_num' = m
  /\ check_ret' = check_current_temperature_anomaly(city, current_temp, season_stats, m)
  /\ UNCHANGED <<df, window, city_ret, batchVars, city, current_temp, season_stats>>

NextCheck == \E m \in Months : CallCheck(m)

SpecCheck == InitCheck /\ [][NextCheck]_vars

\* the fixed mapping of the specification
SeasonTable ==
  [m \in Months |->
     CASE m \in {12, 1, 2} -> "winter"
       [] m \in {3, 4, 5} -> "spring"
       [] m \in {6, 7, 8} -> "summer"
       [] m \in {9, 10, 11} -> "autumn"]

\* the rows of the table for the city of the call and the season of its month
Baselines ==
  {i \in 1..Len(season_stats) :
     season_stats[i].city = city /\ season_stats[i].season = SeasonTable[month_num]}

\* C7: missing baseline. When the table has no row for (city, season of the
\* month of the call), the call ends in an error (the IndexError of .iloc[0])
\* for every live value: it returns neither True nor False.
C7_MissingBaseline ==
  (check_ret # "not called" /\ Baselines = {}) => check_ret = "IndexError"

\* C7 witness: the table holds rows of the city for other seasons only, and
\* the call ended in the error
C7_Witness ==
  /\ check_ret = "IndexError" /\ Baselines = {}
  /\ \E i \in 1..Len(season_stats) : season_stats[i].city = city

\* C8: seasonal classification. When the table has a row (mean, std) for
\* (city, season of the month of the call), the call returns True exactly
\* when current_temp < mean - 2*std or current_temp > mean + 2*std, and False
\* otherwise; a value on a bound is not anomalous, and neither is any value
\* when std is NaN (both comparisons are then False).
C8_SeasonalClassification ==
  (check_ret # "not called") =>
    \A i \in Baselines :
      /\ check_ret \in {"True", "False"}
      /\ check_ret = "True" <=>
           /\ ~season_stats[i].std.nan
           /\ \/ current_temp < season_stats[i].mean - 2 * season_stats[i].std.val
              \/ current_temp > season_stats[i].mean + 2 * season_stats[i].std.val

\* C8 witness: the example of the specification, mean 20 and std 5 in a
\* winter month, 32 is anomalous
C8_Witness ==
  /\ check_ret = "True" /\ current_temp = 32 /\ month_num = 12
  /\ \E i \in Baselines : season_stats[i].mean = 20 /\ season_stats[i].std = [nan |-> FALSE, val |-> 5]

====
